---- MODULE Spec2Model ----
(***************************************************************************)
(* Model of server/server.py: the POST / handler create_word, the pair     *)
(* cache kept in the word_cache table, and the two grammar-constrained      *)
(* llm calls of generate_word.                                              *)
(*                                                                          *)
(* Strings that the code inspects character by character (concept names,   *)
(* generated words) are sequences of one-character strings; emojis are      *)
(* opaque values.  The handler is an async function whose awaits never      *)
(* suspend (sqlite3 and llm are blocking calls), so a request that has      *)
(* entered create_word runs to its return before the event loop starts      *)
(* another one: `req` is the one request on the event loop, `prev` the      *)
(* request that returned just before it.                                    *)
(***************************************************************************)
EXTENDS Integers, Sequences, FiniteSets, TLC

VARIABLES cache, req, prev, nreq

vars == <<cache, req, prev, nreq>>

(* ------------------------------ bounds -------------------------------- *)

\* number of rows put in the table when the cache functions are run on their own
MaxRows == 3

\* number of POST / requests served in one run
MaxRequests == 2

(* --------------------------- str operations --------------------------- *)

Whitespace == {" "}

\* str.lower() on one character
ToLower(c) ==
    CASE c = "A" -> "a" [] c = "B" -> "b" [] c = "S" -> "s" [] c = "T" -> "t"
      [] c = "W" -> "w" [] c = "F" -> "f" [] c = "E" -> "e" [] c = "R" -> "r"
      [] c = "I" -> "i" [] c = "M" -> "m" [] c = "N" -> "n"
      [] OTHER -> c

\* str.upper() on one character
ToUpper(c) ==
    CASE c = "a" -> "A" [] c = "b" -> "B" [] c = "s" -> "S" [] c = "t" -> "T"
      [] c = "w" -> "W" [] c = "f" -> "F" [] c = "e" -> "E" [] c = "r" -> "R"
      [] c = "i" -> "I" [] c = "m" -> "M" [] c = "n" -> "N"
      [] OTHER -> c

str_lower(s) == [i \in 1..Len(s) |-> ToLower(s[i])]

RECURSIVE str_lstrip(_)
str_lstrip(s) ==
    IF s # <<>> /\ Head(s) \in Whitespace THEN str_lstrip(Tail(s)) ELSE s

RECURSIVE str_rstrip(_)
str_rstrip(s) ==
    IF s # <<>> /\ s[Len(s)] \in Whitespace
    THEN str_rstrip(SubSeq(s, 1, Len(s) - 1))
    ELSE s

str_strip(s) == str_rstrip(str_lstrip(s))

\* the title case of one character; "U+0149" (n preceded by apostrophe) is
\* the character whose title case is the two characters U+02BC, N
ToTitle(c) ==
    IF c = "U+0149" THEN <<"U+02BC", "N">> ELSE <<ToUpper(c)>>

\* str.capitalize(): first character title-cased, all the others lower-cased
str_capitalize(s) ==
    IF s = <<>> THEN <<>> ELSE ToTitle(s[1]) \o str_lower(Tail(s))

\* len(s.split()): the number of maximal runs of non-whitespace characters
str_split_len(s) ==
    Cardinality({i \in 1..Len(s) :
                    /\ s[i] \notin Whitespace
                    /\ (i = 1 \/ s[i - 1] \in Whitespace)})

\* sub in s
str_in(sub, s) ==
    \E i \in 0..(Len(s) - Len(sub)) : SubSeq(s, i + 1, i + Len(sub)) = sub

capitalize_first_letter(string) == str_capitalize(string)

(* ------------------------------ inputs -------------------------------- *)

\* the concept names a client posts, before normalisation
RawNames ==
    { <<>>, <<" ">>, <<"a">>, <<" ", "B">> }

\* the words the model can emit under WORD_GRAMMAR ([a-zA-Z]+)
GenWords == { <<"s">>, <<"s", "T">>, <<"a", "b">> }

\* the characters the model can emit under EMOJI_GRAMMAR
Emojis == { "E1", "E2" }

\* the default emoji of generate_word
FallbackEmoji == "FALLBACK"

(* --------------------------- llm responses ---------------------------- *)

\* A completion is a list of choices; a choice's text is JSON text: either
\* text that json.loads rejects (cut off at max_tokens, or a quote in the
\* place of the emoji), or an object with one key.
Texts(key, vals, nil) ==
    {[json |-> "malformed", key |-> "", val |-> nil]}
        \cup {[json |-> "object", key |-> "other", val |-> nil]}
        \cup {[json |-> "object", key |-> key, val |-> v] : v \in vals}

Completions(key, vals, nil) ==
    {[choices |-> <<>>]}
        \cup {[choices |-> <<t>>] : t \in Texts(key, vals, nil)}

WordCompletions == Completions("result", GenWords, <<>>)

EmojiCompletions == Completions("emoji", Emojis, "")

\* json.loads(result['choices'][0]['text'])[key]: the value, or the exception
json_field(result, key, nil) ==
    IF Len(result.choices) = 0
    THEN [exc |-> "IndexError", val |-> nil]
    ELSE LET text == result.choices[1]
         IN  IF text.json = "malformed"
             THEN [exc |-> "JSONDecodeError", val |-> nil]
             ELSE IF text.key # key
                  THEN [exc |-> "KeyError", val |-> nil]
                  ELSE [exc |-> "none", val |-> text.val]

\* except (json.JSONDecodeError, KeyError, IndexError)
CaughtExceptions == {"JSONDecodeError", "KeyError", "IndexError"}

(* ----------------------------- responses ------------------------------ *)

WordResult(result, emoji, is_new_element) ==
    [none |-> FALSE, result |-> result, emoji |-> emoji,
     is_new_element |-> is_new_element]

\* Python's None where a WordResult is expected
None == [none |-> TRUE, result |-> <<>>, emoji |-> "", is_new_element |-> FALSE]

\* how a request ends
OK == "200"
InvalidInput == "HTTPException 400 Both words are required"
MalformedModelOutput ==
    "HTTPException 500 Unexpected response format from language model"
InfrastructureError == "sqlite3.Error"
EngineError == "llm raised"

(* ----------------------------- pair cache ----------------------------- *)

\* the rows of word_cache in id order
Row(first_word, second_word, result, emoji) ==
    [first_word |-> first_word, second_word |-> second_word,
     result |-> result, emoji |-> emoji]

\* WHERE (first_word = ? AND second_word = ?) OR (first_word = ? AND second_word = ?)
Selected(row, first_word, second_word) ==
    \/ row.first_word = first_word /\ row.second_word = second_word
    \/ row.first_word = second_word /\ row.second_word = first_word

\* a lookup that matches the stored order only
craft_new_word_from_cache_ordered(c, first_word, second_word) ==
    LET hits == {i \in 1..Len(c) : /\ c[i].first_word = first_word
                                   /\ c[i].second_word = second_word}
    IN  IF hits = {}
        THEN None
        ELSE LET row == c[CHOOSE i \in hits : \A j \in hits : i <= j]
             IN  WordResult(row.result, row.emoji, FALSE)

\* a lookup that returns the newest selected row (ORDER BY id DESC)
craft_new_word_from_cache_latest(c, first_word, second_word) ==
    LET hits == {i \in 1..Len(c) : Selected(c[i], first_word, second_word)}
    IN  IF hits = {}
        THEN None
        ELSE LET row == c[CHOOSE i \in hits : \A j \in hits : j <= i]
             IN  WordResult(row.result, row.emoji, FALSE)

\* SELECT ... ; fetchone(): the first selected row of the rowid scan, or None
craft_new_word_from_cache(c, first_word, second_word) ==
    LET hits == {i \in 1..Len(c) : Selected(c[i], first_word, second_word)}
    IN  IF hits = {}
        THEN None
        ELSE LET row == c[CHOOSE i \in hits : \A j \in hits : i <= j]
             IN  WordResult(row.result, row.emoji, FALSE)

\* cache_new_word that drops the row it was given
cache_new_word_dropped(c, first_word, second_word, result, emoji) == c

\* cache_new_word that keeps one row only (INSERT OR REPLACE on a fixed id)
cache_new_word_replacing(c, first_word, second_word, result, emoji) ==
    <<Row(first_word, second_word, result, emoji)>>

\* cache_new_word that runs its INSERT a second time
cache_new_word_twice(c, first_word, second_word, result, emoji) ==
    Append(Append(c, Row(first_word, second_word, result, emoji)),
           Row(first_word, second_word, result, emoji))

\* INSERT INTO word_cache ... ; commit
cache_new_word(c, first_word, second_word, result, emoji) ==
    Append(c, Row(first_word, second_word, result, emoji))

(* ---------------------------- generate_word --------------------------- *)

\* a rejection test that also rejects a word of exactly the bound's length
rejected_inclusive(word_result, first_word, second_word) ==
    \/ str_split_len(word_result) > 3
    \/ /\ str_in(str_lower(first_word), str_lower(word_result))
       /\ str_in(str_lower(second_word), str_lower(word_result))
       /\ Len(word_result) <= Len(first_word) + Len(second_word) + 2

\* the rejection test of generate_word
rejected(word_result, first_word, second_word) ==
    \/ str_split_len(word_result) > 3
    \/ /\ str_in(str_lower(first_word), str_lower(word_result))
       /\ str_in(str_lower(second_word), str_lower(word_result))
       /\ Len(word_result) < Len(first_word) + Len(second_word) + 2

\* generate_word that leaves the emoji in the result of a rejection
generate_word_result_keepingEmoji(first_word, second_word, word_result, emoji) ==
    IF rejected(word_result, first_word, second_word)
    THEN WordResult(<<>>, emoji, FALSE)
    ELSE WordResult(capitalize_first_letter(word_result), emoji, TRUE)

\* what generate_word returns once both completions are parsed
generate_word_result(first_word, second_word, word_result, emoji) ==
    IF rejected(word_result, first_word, second_word)
    THEN WordResult(<<>>, "", FALSE)
    ELSE WordResult(capitalize_first_letter(word_result), emoji, TRUE)

(* ------------------------------- state -------------------------------- *)

\* A request before create_word has run.  existed, hit, fault, wordFailed
\* and emojiFailed record what happened; lookups, wordCalls, emojiCalls and stores
\* count the external calls made so far.
NewRequest(first, second) ==
    [pc |-> "idle", rawFirst |-> first, rawSecond |-> second,
     first_word |-> <<>>, second_word |-> <<>>,
     existed |-> FALSE, hit |-> FALSE, fault |-> "none",
     wordFailed |-> FALSE, word_result |-> <<>>,
     emojiFailed |-> FALSE, emoji |-> "",
     result |-> None, outcome |-> "", response |-> None,
     lookups |-> 0, wordCalls |-> 0, emojiCalls |-> 0, stores |-> 0]

\* the request returns `response`
Return(r, response) ==
    [r EXCEPT !.pc = "done", !.outcome = OK, !.response = response]

\* the request ends with an exception
Raise(r, exception) == [r EXCEPT !.pc = "done", !.outcome = exception]

\* some row is stored for the unordered pair {first_word, second_word}
HasEntry(c, first_word, second_word) ==
    \E i \in 1..Len(c) :
        {c[i].first_word, c[i].second_word} = {first_word, second_word}

Init ==
    /\ cache = <<>>
    /\ req = NewRequest(<<>>, <<>>)
    /\ prev = NewRequest(<<>>, <<>>)
    /\ nreq = 0

(* ------------------------------ actions ------------------------------- *)

\* create_word entered while the handler before it is still on its way (as
\* it would be if an await of the handler gave up the event loop)
create_word_interleaving(first, second) ==
    /\ nreq < MaxRequests
    /\ nreq' = nreq + 1
    /\ prev' = req
    /\ IF first = <<>> \/ second = <<>>
       THEN req' = Raise(NewRequest(first, second), InvalidInput)
       ELSE LET first_word == capitalize_first_letter(str_lower(str_strip(first)))
                second_word == capitalize_first_letter(str_lower(str_strip(second)))
            IN  req' = [NewRequest(first, second) EXCEPT
                            !.pc = "lookup",
                            !.first_word = first_word,
                            !.second_word = second_word,
                            !.existed = HasEntry(cache, first_word, second_word)]
    /\ UNCHANGED cache

\* create_word that forgets to strip the names
create_word_unstripped(first, second) ==
    /\ req.pc \in {"idle", "done"}
    /\ nreq < MaxRequests
    /\ nreq' = nreq + 1
    /\ prev' = req
    /\ IF first = <<>> \/ second = <<>>
       THEN req' = Raise(NewRequest(first, second), InvalidInput)
       ELSE LET first_word == capitalize_first_letter(str_lower(first))
                second_word == capitalize_first_letter(str_lower(second))
            IN  req' = [NewRequest(first, second) EXCEPT
                            !.pc = "lookup",
                            !.first_word = first_word,
                            !.second_word = second_word,
                            !.existed = HasEntry(cache, first_word, second_word)]
    /\ UNCHANGED cache

\* POST /: the blank check and the normalisation of both names
create_word(first, second) ==
    /\ req.pc \in {"idle", "done"}
    /\ nreq < MaxRequests
    /\ nreq' = nreq + 1
    /\ prev' = req
    /\ IF first = <<>> \/ second = <<>>
       THEN req' = Raise(NewRequest(first, second), InvalidInput)
       ELSE LET first_word == capitalize_first_letter(str_lower(str_strip(first)))
                second_word == capitalize_first_letter(str_lower(str_strip(second)))
            IN  req' = [NewRequest(first, second) EXCEPT
                            !.pc = "lookup",
                            !.first_word = first_word,
                            !.second_word = second_word,
                            !.existed = HasEntry(cache, first_word, second_word)]
    /\ UNCHANGED cache

\* a lookup step that goes on to generate although a row was found
CacheLookup_regenerating ==
    /\ req.pc = "lookup"
    /\ LET cached_result ==
               craft_new_word_from_cache(cache, req.first_word, req.second_word)
       IN  req' = [req EXCEPT !.lookups = @ + 1,
                              !.hit = ~cached_result.none,
                              !.pc = "gen_word"]
    /\ UNCHANGED <<cache, prev, nreq>>

\* craft_new_word: the lookup and the return of a cached result
CacheLookup ==
    /\ req.pc = "lookup"
    /\ LET cached_result ==
               craft_new_word_from_cache(cache, req.first_word, req.second_word)
           r == [req EXCEPT !.lookups = @ + 1]
       IN  IF ~cached_result.none
           THEN req' = Return([r EXCEPT !.hit = TRUE], cached_result)
           ELSE req' = [r EXCEPT !.pc = "gen_word"]
    /\ UNCHANGED <<cache, prev, nreq>>

\* a lookup whose exception is swallowed and read as "no row"
CacheLookupFault_asMiss ==
    /\ req.pc = "lookup"
    /\ req' = [req EXCEPT !.lookups = @ + 1, !.fault = "lookup",
                          !.pc = "gen_word"]
    /\ UNCHANGED <<cache, prev, nreq>>

\* craft_new_word_from_cache raises (sqlite3 cannot open or read the table)
CacheLookupFault ==
    /\ req.pc = "lookup"
    /\ req' = Raise([req EXCEPT !.lookups = @ + 1, !.fault = "lookup"],
                    InfrastructureError)
    /\ UNCHANGED <<cache, prev, nreq>>

\* a word step that, like the emoji step, goes on with a default on a parse
\* failure
GenerateWordCall_defaulting ==
    /\ req.pc = "gen_word"
    /\ \E result \in WordCompletions :
          LET parsed == json_field(result, "result", <<>>)
          IN  req' = [req EXCEPT !.wordCalls = @ + 1,
                                 !.wordFailed = parsed.exc # "none",
                                 !.pc = "gen_emoji",
                                 !.word_result = parsed.val]
    /\ UNCHANGED <<cache, prev, nreq>>

\* a word step that asks the model again on a parse failure
GenerateWordCall_retrying ==
    /\ req.pc = "gen_word"
    /\ \E result \in WordCompletions :
          LET parsed == json_field(result, "result", <<>>)
              r == [req EXCEPT !.wordCalls = @ + 1,
                               !.wordFailed = parsed.exc # "none"]
          IN  IF parsed.exc \in CaughtExceptions
              THEN req' = r
              ELSE req' = [r EXCEPT !.pc = "gen_emoji",
                                    !.word_result = parsed.val]
    /\ UNCHANGED <<cache, prev, nreq>>

\* generate_word: the word completion and its parse
GenerateWordCall ==
    /\ req.pc = "gen_word"
    /\ \E result \in WordCompletions :
          LET parsed == json_field(result, "result", <<>>)
              r == [req EXCEPT !.wordCalls = @ + 1, !.wordFailed = parsed.exc # "none"]
          IN  IF parsed.exc \in CaughtExceptions
              THEN req' = Raise(r, MalformedModelOutput)
              ELSE req' = [r EXCEPT !.pc = "gen_emoji",
                                    !.word_result = parsed.val]
    /\ UNCHANGED <<cache, prev, nreq>>

\* an emoji step that fails the request on a parse failure, as the word step
\* does
GenerateEmojiCall_raising ==
    /\ req.pc = "gen_emoji"
    /\ \E emoji_result \in EmojiCompletions :
          LET parsed == json_field(emoji_result, "emoji", "")
              r == [req EXCEPT !.emojiCalls = @ + 1,
                               !.emojiFailed = parsed.exc # "none"]
          IN  IF parsed.exc \in CaughtExceptions
              THEN req' = Raise(r, MalformedModelOutput)
              ELSE req' = [r EXCEPT
                               !.pc = "store",
                               !.emoji = parsed.val,
                               !.result = generate_word_result(
                                              req.first_word, req.second_word,
                                              req.word_result, parsed.val)]
    /\ UNCHANGED <<cache, prev, nreq>>

\* generate_word: the emoji completion, its parse, the rejection test
GenerateEmojiCall ==
    /\ req.pc = "gen_emoji"
    /\ \E emoji_result \in EmojiCompletions :
          LET parsed == json_field(emoji_result, "emoji", "")
              emoji == IF parsed.exc \in CaughtExceptions
                       THEN FallbackEmoji
                       ELSE parsed.val
          IN  req' = [req EXCEPT
                          !.pc = "store",
                          !.emojiCalls = @ + 1,
                          !.emojiFailed = parsed.exc # "none",
                          !.emoji = emoji,
                          !.result = generate_word_result(
                                         req.first_word, req.second_word,
                                         req.word_result, emoji)]
    /\ UNCHANGED <<cache, prev, nreq>>

\* the llm call itself raises
LlmRaises ==
    /\ req.pc \in {"gen_word", "gen_emoji"}
    /\ req' = Raise([req EXCEPT
                        !.wordCalls = IF req.pc = "gen_word" THEN @ + 1 ELSE @,
                        !.emojiCalls = IF req.pc = "gen_emoji" THEN @ + 1 ELSE @],
                    EngineError)
    /\ UNCHANGED <<cache, prev, nreq>>

\* craft_new_word: the store of what generate_word returned, and the return
CacheStore ==
    /\ req.pc = "store"
    /\ cache' = cache_new_word(cache, req.first_word, req.second_word,
                               req.result.result, req.result.emoji)
    /\ req' = Return([req EXCEPT !.stores = @ + 1], req.result)
    /\ UNCHANGED <<prev, nreq>>

\* cache_new_word raises before the commit
CacheStoreFault ==
    /\ req.pc = "store"
    /\ req' = Raise([req EXCEPT !.stores = @ + 1, !.fault = "store"],
                    InfrastructureError)
    /\ UNCHANGED <<cache, prev, nreq>>

Next ==
    \/ \E first \in RawNames, second \in RawNames : create_word(first, second)
    \/ CacheLookup
    \/ CacheLookupFault
    \/ GenerateWordCall
    \/ GenerateEmojiCall
    \/ LlmRaises
    \/ CacheStore
    \/ CacheStoreFault

Spec == Init /\ [][Next]_vars

(* ---------------------- names in several spellings -------------------- *)

\* names posted in several spellings of the same concept
CaseNames == { <<"a">>, <<"A", " ">>, <<" ", "b", "S">> }

\* the server, its clients posting the names of CaseNames
NextCase ==
    \/ \E first \in CaseNames, second \in CaseNames : create_word(first, second)
    \/ CacheLookup
    \/ CacheLookupFault
    \/ GenerateWordCall
    \/ GenerateEmojiCall
    \/ LlmRaises
    \/ CacheStore
    \/ CacheStoreFault

SpecCase == Init /\ [][NextCase]_vars

(* ------------------- the cache functions on their own ----------------- *)

\* the names, words and emojis the cache functions are called with
CacheNames == { <<"A">>, <<"B">> }

CacheWords == { <<"S">>, <<"T">> }

CacheEmojis == { "E1" }

\* a call of cache_new_word, whatever the table holds
StoreRow(first_word, second_word, result, emoji) ==
    /\ Len(cache) < MaxRows
    /\ cache' = cache_new_word(cache, first_word, second_word, result, emoji)
    /\ UNCHANGED <<req, prev, nreq>>

\* a call of craft_new_word_from_cache; req holds its answer, prev the answer
\* of the call before
LookupRow(first_word, second_word) ==
    /\ req' = [NewRequest(first_word, second_word) EXCEPT
                   !.pc = "done",
                   !.first_word = first_word,
                   !.second_word = second_word,
                   !.lookups = 1,
                   !.response = craft_new_word_from_cache(
                                    cache, first_word, second_word)]
    /\ prev' = req
    /\ UNCHANGED <<cache, nreq>>

NextCache ==
    \/ \E first_word \in CacheNames, second_word \in CacheNames,
          result \in CacheWords, emoji \in CacheEmojis :
            StoreRow(first_word, second_word, result, emoji)
    \/ \E first_word \in CacheNames, second_word \in CacheNames :
            LookupRow(first_word, second_word)

SpecCache == Init /\ [][NextCache]_vars

(* ------------------ generate_word on chosen candidates ----------------- *)

\* normalized names and candidate words for the rejection test.  The
\* candidates with blanks are outside WORD_GRAMMAR; they are here for the
\* token count of the test.
ValidateNames ==
    { <<"W", "a", "t", "e", "r">>, <<"F", "i", "r", "e">>,
      <<"A">>, <<"B">>, <<>> }

Candidates ==
    { <<"W", "a", "t", "e", "r", "f", "i", "r", "e">>,
      <<"S", "t", "e", "a", "m">>,
      <<"F", "i", "r", "e", "W", "a", "t", "e", "r">>,
      <<"w", "a", "t", "e", "r", "f", "i", "r", "e", "s", "t">>,
      <<"s">>, <<"s", "T">>, <<"a", "b">>, <<"B", "a", "s", "t">>,
      <<"s", " ", "s", " ", "s">>,
      <<"s", " ", "s", " ", "s", " ", "s">> }

\* a request that has missed the cache and parsed the word completion
InitValidate ==
    /\ cache = <<>>
    /\ prev = NewRequest(<<>>, <<>>)
    /\ nreq = MaxRequests
    /\ \E first_word \in ValidateNames, second_word \in ValidateNames,
          word_result \in Candidates :
            req = [NewRequest(first_word, second_word) EXCEPT
                       !.pc = "gen_emoji",
                       !.first_word = first_word,
                       !.second_word = second_word,
                       !.lookups = 1,
                       !.wordCalls = 1,
                       !.word_result = word_result]

NextValidate ==
    \/ GenerateEmojiCall
    \/ LlmRaises
    \/ CacheStore
    \/ CacheStoreFault

SpecValidate == InitValidate /\ [][NextValidate]_vars

(* ------------------------ one request, any name ----------------------- *)

\* names for the normalisation: spellings, blanks, inner capitals, and the
\* character whose title case is two characters
NormNames ==
    { <<>>, <<" ">>, <<"a">>, <<"A", " ">>, <<" ", "b", "S">>,
      <<"a", " ", "B">>, <<"U+0149">>, <<"U+02BC", "n">> }

\* the normalisation of create_word
normalize(name) == capitalize_first_letter(str_lower(str_strip(name)))

\* the last request of a run
InitNames ==
    /\ cache = <<>>
    /\ req = NewRequest(<<>>, <<>>)
    /\ prev = NewRequest(<<>>, <<>>)
    /\ nreq = MaxRequests - 1

NextNames ==
    \/ \E first \in NormNames, second \in NormNames : create_word(first, second)
    \/ CacheLookup
    \/ CacheLookupFault
    \/ GenerateWordCall
    \/ GenerateEmojiCall
    \/ LlmRaises
    \/ CacheStore
    \/ CacheStoreFault

SpecNames == InitNames /\ [][NextNames]_vars

(* ------------------------------- claims ------------------------------- *)

\* the request on the event loop has returned a WordResult
Returned(r) == r.pc = "done" /\ r.outcome = OK

\* the request passed the blank check and entered craft_new_word
Combined(r) == r.lookups = 1

\* the request ran without a storage fault and without the llm raising
Unfaulted(r) == r.fault = "none" /\ r.outcome # EngineError

\* the sentinel of a rejection: empty word, not novel
IsSentinel(response) ==
    response.result = <<>> /\ ~response.is_new_element

\* the request missed the cache and its generated word was rejected
EndedRejected(r) ==
    /\ Returned(r)
    /\ ~r.hit
    /\ r.wordCalls = 1
    /\ rejected(r.word_result, r.first_word, r.second_word)

\* the earliest row stored for the unordered pair
FirstEntry(c, first_word, second_word) ==
    LET rows == {i \in 1..Len(c) :
                    {c[i].first_word, c[i].second_word}
                        = {first_word, second_word}}
    IN  c[CHOOSE i \in rows : \A j \in rows : i <= j]

\* C1: a request that misses the cache and ends in the Rejected outcome
\* (empty word, not novel) writes no row for its pair, and the next request
\* for the same pair calls the model again.
C1_RejectionNotCached ==
    /\ (EndedRejected(req) /\ ~req.existed)
           => /\ IsSentinel(req.response)
              /\ ~HasEntry(cache, req.first_word, req.second_word)
    /\ (/\ EndedRejected(prev) /\ ~prev.existed
        /\ Returned(req)
        /\ req.first_word = prev.first_word
        /\ req.second_word = prev.second_word)
           => req.wordCalls = 1

\* C2: from a cache without a row for the pair, with the generated word
\* accepted, two requests for (A, B) in a row, neither hit by a storage fault
\* or an llm exception, both return: the first a novel result, the second the
\* same word and emoji as not novel.
C2_Idempotence ==
    (/\ req.pc = "done" /\ prev.pc = "done"
     /\ Combined(req) /\ Combined(prev)
     /\ req.first_word = prev.first_word
     /\ req.second_word = prev.second_word
     /\ ~prev.existed
     /\ prev.wordCalls = 1 /\ ~prev.wordFailed
     /\ ~rejected(prev.word_result, prev.first_word, prev.second_word)
     /\ Unfaulted(prev) /\ Unfaulted(req))
        => /\ Returned(prev) /\ Returned(req)
           /\ prev.response.is_new_element
           /\ ~req.response.is_new_element
           /\ req.response.result = prev.response.result
           /\ req.response.emoji = prev.response.emoji

C2_Witness ==
    /\ req.pc = "done" /\ prev.pc = "done"
    /\ req.first_word = prev.first_word
    /\ req.second_word = prev.second_word
    /\ ~prev.existed
    /\ prev.response.is_new_element
    /\ prev.response.result = <<"S", "t">>
    /\ Returned(req) /\ req.hit
    /\ req.response.result = <<"S", "t">>

\* C3: once a row is stored for the unordered pair {A, B}, every request for
\* (A, B) or (B, A) that returns, returns the word and emoji of that row.
C3_Symmetry ==
    (Returned(req) /\ req.existed)
        => LET row == FirstEntry(cache, req.first_word, req.second_word)
           IN  /\ req.response.result = row.result
               /\ req.response.emoji = row.emoji

C3_Witness ==
    /\ Returned(req) /\ req.existed
    /\ req.first_word # req.second_word
    /\ req.response.result # <<>>
    /\ FirstEntry(cache, req.first_word, req.second_word).first_word
           = req.second_word

\* C4: a request whose lookup finds a row ends there: it returns that row's
\* word and emoji as not novel, has made no llm call and no store, and the
\* lookup step leaves the cache as it was.
C4_HitPath ==
    [][req'.hit =>
          /\ req'.pc = "done"
          /\ req'.outcome = OK
          /\ req'.response =
                 LET row == FirstEntry(cache', req'.first_word, req'.second_word)
                 IN  WordResult(row.result, row.emoji, FALSE)
          /\ req'.wordCalls = 0 /\ req'.emojiCalls = 0 /\ req'.stores = 0
          /\ cache' = cache]_vars

C4_Witness ==
    /\ Returned(req) /\ req.hit
    /\ req.response.result # <<>>
    /\ req.response.emoji = "E1"

\* C5: a step changes the cache by appending one row or not at all, so a
\* stored row keeps its position and its four values for ever.
C5_CreateOnce ==
    [][/\ Len(cache) <= Len(cache')
       /\ Len(cache') <= Len(cache) + 1
       /\ SubSeq(cache', 1, Len(cache)) = cache]_vars

C5_Witness ==
    /\ Len(cache) = 2
    /\ req.pc = "done" /\ req.stores = 1
    /\ cache[1].result # cache[2].result

\* C6: when the word parsed and passed the rejection test and the emoji
\* completion fails to parse, the request goes on to the store with the
\* capitalized word, the fallback emoji and novel = true; it ends only by
\* returning that result, stored in the row it appended, or by a fault of the
\* store itself.
C6_EmojiFallback ==
    (/\ req.emojiFailed
     /\ ~rejected(req.word_result, req.first_word, req.second_word))
        => LET word == capitalize_first_letter(req.word_result)
           IN  /\ req.pc \in {"store", "done"}
               /\ req.result = WordResult(word, FallbackEmoji, TRUE)
               /\ req.pc = "done" =>
                      \/ req.fault = "store" /\ req.outcome = InfrastructureError
                      \/ /\ req.outcome = OK
                         /\ req.response = WordResult(word, FallbackEmoji, TRUE)
                         /\ cache # <<>>
                         /\ cache[Len(cache)] =
                                Row(req.first_word, req.second_word,
                                    word, FallbackEmoji)

C6_Witness ==
    /\ Returned(req)
    /\ req.emojiFailed
    /\ req.response = WordResult(<<"S", "t">>, FallbackEmoji, TRUE)
    /\ cache[Len(cache)].emoji = FallbackEmoji

\* C7: a word completion that cannot be parsed ends the request with
\* MalformedModelOutput after that one word call, with no emoji call and no
\* store, and leaves the cache as it was.
C7_WordParseFailure ==
    [][req'.wordFailed =>
          /\ req'.pc = "done"
          /\ req'.outcome = MalformedModelOutput
          /\ req'.wordCalls = 1 /\ req'.emojiCalls = 0 /\ req'.stores = 0
          /\ cache' = cache]_vars

C7_Witness ==
    /\ req.pc = "done"
    /\ req.wordFailed
    /\ req.outcome = MalformedModelOutput
    /\ cache # <<>>

\* C8: a fault of the lookup ends the request with InfrastructureError; no
\* llm call is made, nothing is stored and the cache is left as it was.
C8_LookupFault ==
    [][req'.fault = "lookup" =>
          /\ req'.pc = "done"
          /\ req'.outcome = InfrastructureError
          /\ req'.wordCalls = 0 /\ req'.emojiCalls = 0 /\ req'.stores = 0
          /\ cache' = cache]_vars

C8_Witness ==
    /\ req.pc = "done"
    /\ req.fault = "lookup"
    /\ req.outcome = InfrastructureError
    /\ ~HasEntry(cache, req.first_word, req.second_word)

\* a name that is empty once trimmed
Blank(name) == str_strip(name) = <<>>

\* C9: a request with a blank name (empty, or whitespace only) fails with
\* InvalidInput before any lookup, llm call or store.
C9_BlankRejected ==
    (req.pc # "idle" /\ (Blank(req.rawFirst) \/ Blank(req.rawSecond)))
        => /\ req.pc = "done"
           /\ req.outcome = InvalidInput
           /\ req.lookups = 0 /\ req.wordCalls = 0
           /\ req.emojiCalls = 0 /\ req.stores = 0

\* C10: a request makes at most one lookup, one word call, one emoji call and
\* one store.
C10_AtMostOnce ==
    /\ req.lookups <= 1
    /\ req.wordCalls <= 1
    /\ req.emojiCalls <= 1
    /\ req.stores <= 1

C10_Witness ==
    /\ req.pc = "done"
    /\ req.lookups = 1 /\ req.wordCalls = 1
    /\ req.emojiCalls = 1 /\ req.stores = 1

\* the name between its first and its last non-whitespace character
Core(name) ==
    LET inked == {i \in 1..Len(name) : name[i] \notin Whitespace}
    IN  IF inked = {}
        THEN <<>>
        ELSE SubSeq(name,
                    CHOOSE i \in inked : \A j \in inked : i <= j,
                    CHOOSE i \in inked : \A j \in inked : j <= i)

\* the two names differ only in letter case or surrounding whitespace
SameName(x, y) ==
    /\ Len(Core(x)) = Len(Core(y))
    /\ \A i \in 1..Len(Core(x)) : ToLower(Core(x)[i]) = ToLower(Core(y)[i])

\* the spelling a name is stored under: Water for " WATER "
StoredSpelling(name) ==
    [i \in 1..Len(Core(name)) |->
        IF i = 1 THEN ToUpper(Core(name)[i]) ELSE ToLower(Core(name)[i])]

RowsOf(c, first_word, second_word) ==
    {i \in 1..Len(c) :
        {c[i].first_word, c[i].second_word} = {first_word, second_word}}

\* the request has missed the cache and has not stored yet
BetweenMissAndStore(r) == r.pc \in {"gen_word", "gen_emoji", "store"}

Found(r) == r.pc = "done" /\ ~r.response.none

\* C13: whatever rows cache_new_word has added, a lookup that found a row
\* for an unordered pair answered with the earliest row stored for the pair,
\* in either argument order and however many rows were added since; two
\* lookups of the pair give the same word and emoji.
C13_StableLookup ==
    /\ Found(req) =>
          LET row == FirstEntry(cache, req.first_word, req.second_word)
          IN  req.response = WordResult(row.result, row.emoji, FALSE)
    /\ (/\ Found(req) /\ Found(prev)
        /\ {req.first_word, req.second_word}
               = {prev.first_word, prev.second_word})
           => /\ req.response.result = prev.response.result
              /\ req.response.emoji = prev.response.emoji

C13_Witness ==
    /\ Len(cache) = 3
    /\ cache[1].first_word = <<"A">> /\ cache[1].second_word = <<"B">>
    /\ cache[2].first_word = <<"B">> /\ cache[2].second_word = <<"A">>
    /\ cache[3].first_word = <<"A">> /\ cache[3].second_word = <<"B">>
    /\ cache[1].result = <<"S">> /\ cache[2].result = <<"T">>
    /\ cache[3].result = <<"T">>
    /\ Found(prev) /\ prev.first_word = <<"A">> /\ prev.second_word = <<"B">>
    /\ Found(req) /\ req.first_word = <<"B">> /\ req.second_word = <<"A">>
    /\ req.response.result = <<"S">>

\* C14: a request that ends in Rejected has called the model once, for the
\* word, and never for the emoji.
C14_ValidationBeforeEmoji ==
    EndedRejected(req) => (req.wordCalls = 1 /\ req.emojiCalls = 0)

\* the candidate without its leading token
RECURSIVE DropToken(_)
DropToken(s) ==
    IF s = <<>> \/ Head(s) \in Whitespace THEN s ELSE DropToken(Tail(s))

\* tokenCount of the specification: the whitespace-separated tokens
RECURSIVE TokenCount(_)
TokenCount(s) ==
    IF s = <<>> THEN 0
    ELSE IF Head(s) \in Whitespace THEN TokenCount(Tail(s))
    ELSE 1 + TokenCount(DropToken(s))

\* the candidate contains the name, letter case ignored
ContainsIgnoringCase(candidate, name) ==
    \E start \in 1..(Len(candidate) + 1) :
        /\ start + Len(name) - 1 <= Len(candidate)
        /\ \A k \in 1..Len(name) :
              ToLower(candidate[start + k - 1]) = ToLower(name[k])

\* the rejection policy as the specification states it
RejectionPolicy(candidate, first, second) ==
    \/ TokenCount(candidate) > 3
    \/ /\ ContainsIgnoringCase(candidate, first)
       /\ ContainsIgnoringCase(candidate, second)
       /\ Len(candidate) < Len(first) + Len(second) + 2

\* C15: generate_word returns the sentinel (empty word, not novel) exactly
\* when the candidate has more than 3 tokens, or contains both names, letter
\* case ignored, and is shorter than len(first) + len(second) + 2; that is
\* what the request then returns.
C15_RejectionPolicy ==
    ~req.result.none =>
        /\ IsSentinel(req.result)
               <=> RejectionPolicy(req.word_result,
                                   req.first_word, req.second_word)
        /\ Returned(req) => req.response = req.result

C15_Witness ==
    /\ Returned(req)
    /\ req.first_word = <<"W", "a", "t", "e", "r">>
    /\ req.second_word = <<"F", "i", "r", "e">>
    /\ req.word_result = <<"W", "a", "t", "e", "r", "f", "i", "r", "e">>
    /\ IsSentinel(req.response)

\* the word with its first letter upper-cased and the rest as it is
FirstLetterUpper(word) ==
    IF word = <<>> THEN <<>> ELSE <<ToUpper(word[1])>> \o Tail(word)

\* C16: a request that generated and stored a word returns and stores the
\* generated word with only its first letter upper-cased.
C16_OnlyFirstLetterChanged ==
    (Returned(req) /\ req.stores = 1 /\ req.response.is_new_element)
        => /\ req.response.result = FirstLetterUpper(req.word_result)
           /\ cache[Len(cache)].result = FirstLetterUpper(req.word_result)

\* C17: the names a request is keyed by are fixed points of the
\* normalisation: normalize(normalize(s)) = normalize(s) for every name s.
C17_NormalizeIdempotent ==
    Combined(req) =>
        /\ req.first_word = normalize(req.rawFirst)
        /\ req.second_word = normalize(req.rawSecond)
        /\ normalize(req.first_word) = req.first_word
        /\ normalize(req.second_word) = req.second_word

\* the handler of the request is at one of its two llm calls
AtLlmCall(r) == r.pc \in {"gen_word", "gen_emoji"}

\* the handler of the request has not returned
InHandler(r) == r.pc \notin {"idle", "done"}

C19_CacheIntegrity ==
    (Returned(req) /\ req.stores = 1)
        => /\ cache # <<>>
           /\ cache[Len(cache)] =
                  Row(req.first_word, req.second_word,
                      capitalize_first_letter(req.word_result), req.emoji)

\* C20: a returned response is either novel, with a non-empty word and a
\* non-empty emoji that a row of the cache holds for the pair, or not novel;
\* a response with an empty word is not novel and has an empty emoji.
C20_ResponseShape ==
    Returned(req) =>
        /\ req.response.is_new_element =>
              /\ req.response.result # <<>>
              /\ req.response.emoji # ""
              /\ \E i \in RowsOf(cache, req.first_word, req.second_word) :
                    /\ cache[i].result = req.response.result
                    /\ cache[i].emoji = req.response.emoji
        /\ req.response.result = <<>> =>
              /\ ~req.response.is_new_element
              /\ req.response.emoji = ""

C20_Witness ==
    /\ Returned(req)
    /\ req.emojiCalls = 1 /\ req.emoji = "E1"
    /\ req.response.result = <<>>
    /\ req.response.emoji = ""
    /\ Returned(prev) /\ prev.response.is_new_element

====
